---- MODULE Spec2Model ----
(***************************************************************************)
(* 8-puzzle search strategies of solver.py: breadth-first, uniform-cost,   *)
(* greedy best-first and A* search over the parent map, the explored set,  *)
(* the frontier and the two counters of one solver instance.               *)
(*                                                                         *)
(* The board type (puzz.EightPuzzleBoard) and the frontier queues          *)
(* (pdqpq.FifoQueue, pdqpq.PriorityQueue) are imported by solver.py; they  *)
(* are modelled from their documented interface.                           *)
(***************************************************************************)
EXTENDS Integers, Sequences, FiniteSets

VARIABLES
    pc,              \* "init" | "loop" (inside solve's while loop) | "done" | "error"
    flavor,          \* the flavor tag, as its '-'-separated segments
    strat,           \* solve_puzzle's strat
    heur,            \* solve_puzzle's heur
    start,           \* start_state
    parents,         \* self.parents: state -> parent state (None for the start)
    frontier,        \* self.frontier: entries in insertion order
    explored,        \* self.explored
    frontier_count,  \* self.frontier_count
    expanded_count,  \* self.expanded_count
    result,          \* the dictionary returned by solve
    replacements,    \* number of remove + re-add priority replacements so far
    last_node,       \* solve's node: the state popped by the last loop iteration
    walk,            \* a board reached from a test puzzle by legal slides
    walk_from,       \* index of the test puzzle the walk started at
    walk_len         \* number of slides of the walk

vars == <<pc, flavor, strat, heur, start, parents, frontier, explored,
          frontier_count, expanded_count, result, replacements, last_node,
          walk, walk_from, walk_len>>

solver_vars == <<pc, flavor, strat, heur, start, parents, frontier, explored,
                 frontier_count, expanded_count, result, replacements, last_node>>

walk_vars == <<walk, walk_from, walk_len>>

(***************************************************************************)
(* Bounds                                                                  *)
(***************************************************************************)
\* start states are the boards at most MaxScramble slides away from the goal
MaxScramble == 3
\* longest walk explored from a test puzzle
MaxWalk == 25

(***************************************************************************)
(* Python values                                                           *)
(***************************************************************************)
\* None where a board is expected (parents[start_state])
None == <<>>
\* None where a string is expected (heur, the argument of find)
NoneStr == "None"

\* int(tile) for a one-digit tile string
int(t) ==
    CASE t = "0" -> 0 [] t = "1" -> 1 [] t = "2" -> 2
      [] t = "3" -> 3 [] t = "4" -> 4 [] t = "5" -> 5
      [] t = "6" -> 6 [] t = "7" -> 7 [] t = "8" -> 8

abs(n) == IF n < 0 THEN -n ELSE n

(***************************************************************************)
(* puzz.EightPuzzleBoard: a board is its 9-character tile string, rows     *)
(* from top to bottom; (0,0) is the bottom left cell.                      *)
(***************************************************************************)
Side == 3

EightPuzzleBoard(s) == s

\* position in the tile string of the cell (x, y)
cell(x, y) == (Side - 1 - y) * Side + x + 1

get_tile(b, x, y) == b[cell(x, y)]

\* coordinates <<x, y>> of a tile; None and "0" both name the blank
find(b, tile) ==
    LET t == IF tile = NoneStr THEN "0" ELSE tile
        i == CHOOSE k \in 1..Len(b) : b[k] = t
    IN  <<(i - 1) % Side, Side - 1 - ((i - 1) \div Side)>>

Moves == <<"up", "down", "left", "right">>

\* where the blank goes when a tile slides in direction m
blank_delta(m) ==
    CASE m = "up" -> <<0, -1>>
      [] m = "down" -> <<0, 1>>
      [] m = "left" -> <<1, 0>>
      [] m = "right" -> <<-1, 0>>

legal(b, m) ==
    LET p == find(b, "0")
        d == blank_delta(m)
    IN  /\ p[1] + d[1] \in 0..(Side - 1)
        /\ p[2] + d[2] \in 0..(Side - 1)

\* the board after sliding the neighbouring tile in direction m into the blank
slide(b, m) ==
    LET p == find(b, "0")
        d == blank_delta(m)
        i == cell(p[1], p[2])
        j == cell(p[1] + d[1], p[2] + d[2])
    IN  [k \in 1..Len(b) |-> IF k = i THEN b[j] ELSE IF k = j THEN b[i] ELSE b[k]]

\* successors(): the (move, board) items of the dictionary, in insertion order
successors(b) ==
    LET keep(m) == legal(b, m)
        ms == SelectSeq(Moves, keep)
    IN  [k \in 1..Len(ms) |-> <<ms[k], slide(b, ms[k])>>]

successor_set(b) == {slide(b, m) : m \in {Moves[k] : k \in {j \in 1..Len(Moves) : legal(b, Moves[j])}}}

get_move(b, other) ==
    LET ss == successors(b)
    IN  IF \E k \in 1..Len(ss) : ss[k][2] = other
        THEN ss[CHOOSE k \in 1..Len(ss) : ss[k][2] = other][1]
        ELSE NoneStr

GOAL_STATE == EightPuzzleBoard(<<"0", "1", "2", "3", "4", "5", "6", "7", "8">>)

(***************************************************************************)
(* pdqpq.FifoQueue and pdqpq.PriorityQueue.  A queue is its kind and the   *)
(* sequence of its entries in insertion order; an entry is a state with    *)
(* its priority.  A priority is <<n>> for the number n, and None when None *)
(* was passed.  Among entries of equal priority a PriorityQueue gives out  *)
(* the oldest or the newest first; which, is fixed when it is built.       *)
(***************************************************************************)
\* the priority add() uses when the caller passes none
DefaultPriority == 0

TieRules == {"oldest", "newest"}

FifoQueue == [fifo |-> TRUE, tie |-> "oldest", items |-> <<>>]

PriorityQueue(tie) == [fifo |-> FALSE, tie |-> tie, items |-> <<>>]

q_states(q) == {q.items[k].state : k \in 1..Len(q.items)}

q_contains(q, s) == s \in q_states(q)

q_is_empty(q) == Len(q.items) = 0

q_remove(q, s) ==
    LET other(e) == e.state # s
    IN  [q EXCEPT !.items = SelectSeq(q.items, other)]

\* add(item, priority): an item already present is replaced, never duplicated
q_add(q, s, p) ==
    [q EXCEPT !.items = Append(q_remove(q, s).items, [state |-> s, pri |-> p])]

\* get(item): the stored priority of an item of the queue
q_get(q, s) == q.items[CHOOSE k \in 1..Len(q.items) : q.items[k].state = s].pri

\* the position pop() takes its item from: a FifoQueue gives its oldest entry,
\* a PriorityQueue an entry of minimum priority; entries whose priority is
\* None are not ordered by priority and leave in insertion order
q_pop_index(q) ==
    IF q.fifo \/ \E k \in 1..Len(q.items) : q.items[k].pri = None
    THEN 1
    ELSE LET least == {k \in 1..Len(q.items) :
                          \A j \in 1..Len(q.items) : q.items[k].pri[1] <= q.items[j].pri[1]}
         IN  IF q.tie = "oldest"
             THEN CHOOSE k \in least : \A j \in least : k <= j
             ELSE CHOOSE k \in least : \A j \in least : k >= j

\* the queue without the entry at position k
q_without(q, k) ==
    [q EXCEPT !.items =
        [j \in 1..(Len(q.items) - 1) |-> IF j < k THEN q.items[j] ELSE q.items[j + 1]]]

(***************************************************************************)
(* BreadthFirstSolver: path and cost reconstruction, results               *)
(***************************************************************************)
\* d[k] = None whatever the value v
put_unlinked(d, k, v) == [s \in DOMAIN d \cup {k} |-> IF s = k THEN None ELSE d[s]]

\* d[k] = v for a Python dictionary d
put(d, k, v) == [s \in DOMAIN d \cup {k} |-> IF s = k THEN v ELSE d[s]]

reverse(seq) == [k \in 1..Len(seq) |-> seq[Len(seq) + 1 - k]]

\* the while loop of get_path: the states from state back to the root
RECURSIVE path_back(_, _)
path_back(P, state) ==
    IF state = None THEN <<>> ELSE <<state>> \o path_back(P, P[state])

\* get_path without path.reverse()
get_path_unreversed(P, state) == path_back(P, state)

get_path(P, state) == reverse(path_back(P, state))

\* the for loop of get_cost with the tile's number in place of its square
RECURSIVE cost_from_unsquared(_, _)
cost_from_unsquared(path, i) ==
    IF i > Len(path) THEN 0
    ELSE LET xy == find(path[i - 1], NoneStr)
             tile == get_tile(path[i], xy[1], xy[2])
         IN  int(tile) + cost_from_unsquared(path, i + 1)

\* the for loop of get_cost over path[1..], summed from position i on
RECURSIVE cost_from(_, _)
cost_from(path, i) ==
    IF i > Len(path) THEN 0
    ELSE LET xy == find(path[i - 1], NoneStr)
             tile == get_tile(path[i], xy[1], xy[2])
         IN  int(tile) * int(tile) + cost_from(path, i + 1)

get_cost(P, state) == cost_from(get_path(P, state), 2)

get_results_dict(P, fc, ec, state) ==
    IF state # None
    THEN LET path == get_path(P, state)
             moves == [i \in 1..Len(path) |->
                          IF i = 1 THEN "start" ELSE get_move(path[i - 1], path[i])]
         IN  [frontier_count |-> fc,
              expanded_count |-> ec,
              path_cost |-> get_cost(P, state),
              path |-> [i \in 1..Len(path) |-> <<moves[i], path[i]>>]]
    ELSE [frontier_count |-> fc, expanded_count |-> ec]

(***************************************************************************)
(* UniformCostSolver._transition_cost                                      *)
(***************************************************************************)
\* _transition_cost with the tile's number in place of its square
_transition_cost_unsquared(state, move) ==
    LET x == find(state, "0")[1]
        y == find(state, "0")[2]
    IN  CASE move = "up" -> int(get_tile(state, x, y - 1))
          [] move = "down" -> int(get_tile(state, x, y + 1))
          [] move = "left" -> int(get_tile(state, x + 1, y))
          [] move = "right" -> int(get_tile(state, x - 1, y))

_transition_cost(state, move) ==
    LET x == find(state, "0")[1]
        y == find(state, "0")[2]
    IN  CASE move = "up" -> int(get_tile(state, x, y - 1)) * int(get_tile(state, x, y - 1))
          [] move = "down" -> int(get_tile(state, x, y + 1)) * int(get_tile(state, x, y + 1))
          [] move = "left" -> int(get_tile(state, x + 1, y)) * int(get_tile(state, x + 1, y))
          [] move = "right" -> int(get_tile(state, x - 1, y)) * int(get_tile(state, x - 1, y))

(***************************************************************************)
(* GreedySolver: the heuristics                                            *)
(***************************************************************************)
Coords == {<<x, y>> : x \in 0..(Side - 1), y \in 0..(Side - 1)}

RECURSIVE sum_over(_, _)
sum_over(S, f) ==
    IF S = {} THEN 0
    ELSE LET c == CHOOSE c \in S : TRUE
         IN  f[c] + sum_over(S \ {c}, f)

_num_misplaced_tiles(state) ==
    sum_over(Coords,
        [c \in Coords |->
            IF /\ int(get_tile(state, c[1], c[2])) # 0
               /\ get_tile(state, c[1], c[2]) # get_tile(GOAL_STATE, c[1], c[2])
            THEN 1 ELSE 0])

_manhattan_distance(state) ==
    sum_over(Coords,
        [c \in Coords |->
            LET cur_tile == get_tile(state, c[1], c[2])
                x_coords == find(GOAL_STATE, cur_tile)[1]
                y_coords == find(GOAL_STATE, cur_tile)[2]
            IN  IF int(cur_tile) # 0
                THEN abs(c[1] - x_coords) + abs(c[2] - y_coords)
                ELSE 0])

\* _worse_manhattan with the cube of the tile's number in place of its square
_worse_manhattan_cubed(state) ==
    sum_over(Coords,
        [c \in Coords |->
            LET cur_tile == get_tile(state, c[1], c[2])
                x_coords == find(GOAL_STATE, cur_tile)[1]
                y_coords == find(GOAL_STATE, cur_tile)[2]
                diff == abs(c[1] - x_coords) + abs(c[2] - y_coords)
            IN  int(cur_tile) * int(cur_tile) * int(cur_tile) * diff])

_worse_manhattan(state) ==
    sum_over(Coords,
        [c \in Coords |->
            LET cur_tile == get_tile(state, c[1], c[2])
                x_coords == find(GOAL_STATE, cur_tile)[1]
                y_coords == find(GOAL_STATE, cur_tile)[2]
                diff == abs(c[1] - x_coords) + abs(c[2] - y_coords)
            IN  int(cur_tile) * int(cur_tile) * diff])

\* <<h>> for a known tag; None (after printing an error) for any other
_heuristic(trans, h) ==
    CASE h = "h1" -> <<_num_misplaced_tiles(trans)>>
      [] h = "h2" -> <<_manhattan_distance(trans)>>
      [] h = "h3" -> <<_worse_manhattan(trans)>>
      [] OTHER -> None

(***************************************************************************)
(* The loop bodies of the four solve methods.  acc carries the fields the  *)
(* for loop over succs.items() assigns; status is "run" while the loop     *)
(* goes on, "return" once it returned and "error" once it raised.          *)
(***************************************************************************)
\* add_to_frontier without the increment of frontier_count
add_to_frontier_uncounted(acc, node) ==
    [acc EXCEPT !.frontier = q_add(acc.frontier, node, <<DefaultPriority>>)]

add_to_frontier(acc, node) ==
    [acc EXCEPT !.frontier = q_add(acc.frontier, node, <<DefaultPriority>>),
                !.frontier_count = acc.frontier_count + 1]

\* expand_node without self.explored.add(node)
expand_node_unrecorded(expl, ec, node) ==
    [explored |-> expl, expanded_count |-> ec + 1]

\* expand_node without the increment of expanded_count
expand_node_uncounted(expl, ec, node) ==
    [explored |-> expl \cup {node}, expanded_count |-> ec]

\* expand_node(node): the explored set and the expanded count afterwards; the
\* successors it returns are successors(node)
expand_node(expl, ec, node) ==
    [explored |-> expl \cup {node}, expanded_count |-> ec + 1]

\* line 92 with the popped node in place of the successor
bfs_found_node(node, succ) == node

\* BreadthFirstSolver.solve, line 92: the state get_results_dict is given
bfs_found(node, succ) == succ

\* BreadthFirstSolver.solve, lines 86-94, from the k-th successor on
RECURSIVE bfs_for(_, _, _, _, _)
bfs_for(acc, node, expl, succs, k) ==
    IF k > Len(succs) \/ acc.status # "run" THEN acc
    ELSE LET succ == succs[k][2]
         IN  IF ~q_contains(acc.frontier, succ) /\ succ \notin expl
             THEN LET linked == [acc EXCEPT !.parents = put(acc.parents, succ, node)]
                  IN  IF succ = GOAL_STATE
                      THEN [linked EXCEPT !.status = "return", !.found = bfs_found(node, succ)]
                      ELSE bfs_for(add_to_frontier(linked, succ), node, expl, succs, k + 1)
             ELSE bfs_for(acc, node, expl, succs, k + 1)

\* lines 210 and 217 with the cost of the last slide alone as the priority
ucost_priority_last_slide(P, succ) ==
    get_cost(P, succ) - (IF P[succ] = None THEN 0 ELSE get_cost(P, P[succ]))

\* UniformCostSolver.solve, lines 210 and 217: the priority a state is added with
ucost_priority(P, succ) == get_cost(P, succ)

\* line 207 with >= in place of >
ucost_cheaper_or_equal(cur_front_cost, alt_cost) == cur_front_cost >= alt_cost

\* line 207 with the comparison turned around
ucost_cheaper_flipped(cur_front_cost, alt_cost) == cur_front_cost < alt_cost

\* UniformCostSolver.solve, line 207
ucost_cheaper(cur_front_cost, alt_cost) == cur_front_cost > alt_cost

\* UniformCostSolver.solve, lines 194-217, from the k-th successor on
RECURSIVE ucost_for(_, _, _, _, _)
ucost_for(acc, node, expl, succs, k) ==
    IF k > Len(succs) THEN acc
    ELSE LET move == succs[k][1]
             succ == succs[k][2]
             alt_cost == get_cost(acc.parents, node) + _transition_cost(node, move)
             rebound == put(acc.parents, succ, node)
         IN  IF succ \in expl
             THEN ucost_for(acc, node, expl, succs, k + 1)
             ELSE IF q_contains(acc.frontier, succ)
             THEN LET cur_front_cost == q_get(acc.frontier, succ)[1]
                  IN  IF ucost_cheaper(cur_front_cost, alt_cost)
                      THEN ucost_for(
                               [acc EXCEPT
                                   !.parents = rebound,
                                   !.frontier = q_add(q_remove(acc.frontier, succ), succ,
                                                      <<ucost_priority(rebound, succ)>>),
                                   !.replacements = acc.replacements + 1],
                               node, expl, succs, k + 1)
                      ELSE ucost_for(acc, node, expl, succs, k + 1)
             ELSE ucost_for(
                      [acc EXCEPT
                          !.parents = rebound,
                          !.frontier_count = acc.frontier_count + 1,
                          !.frontier = q_add(acc.frontier, succ,
                                             <<ucost_priority(rebound, succ)>>)],
                      node, expl, succs, k + 1)

\* GreedySolver.solve, lines 263-269, from the k-th successor on
RECURSIVE greedy_for(_, _, _, _, _, _)
greedy_for(acc, node, expl, h, succs, k) ==
    IF k > Len(succs) THEN acc
    ELSE LET succ == succs[k][2]
         IN  IF ~q_contains(acc.frontier, succ) /\ succ \notin expl
             THEN LET heuristic == _heuristic(succ, h)
                  IN  greedy_for(
                          [acc EXCEPT
                              !.parents = put(acc.parents, succ, node),
                              !.frontier_count = acc.frontier_count + 1,
                              !.frontier = q_add(acc.frontier, succ, heuristic)],
                          node, expl, h, succs, k + 1)
             ELSE greedy_for(acc, node, expl, h, succs, k + 1)

\* AStarSolver.solve, lines 357-359: the priority of a state seen for the first
\* time
astar_priority(P, succ, succ_heuristic) ==
    LET cost_to_succ == get_cost(P, succ)
        succ_priority == cost_to_succ + succ_heuristic
    IN  succ_priority

\* line 349 with the comparison turned around
astar_better_flipped(alt_priority, stored) == alt_priority > stored

\* AStarSolver.solve, line 349
astar_better(alt_priority, stored) == alt_priority < stored

\* AStarSolver.solve, lines 338-365, from the k-th successor on; adding None
\* to a number (lines 348 and 359) raises TypeError
RECURSIVE astar_for(_, _, _, _, _, _)
astar_for(acc, node, expl, h, succs, k) ==
    IF k > Len(succs) \/ acc.status # "run" THEN acc
    ELSE LET move == succs[k][1]
             succ == succs[k][2]
             succ_heuristic == _heuristic(succ, h)
         IN  IF succ \notin expl
             THEN IF q_contains(acc.frontier, succ)
                  THEN IF succ_heuristic = None
                       THEN [acc EXCEPT !.status = "error"]
                       ELSE LET trans_to_succ == _transition_cost(node, move)
                                alt_priority == get_cost(acc.parents, node)
                                                + succ_heuristic[1] + trans_to_succ
                            IN  IF astar_better(alt_priority, q_get(acc.frontier, succ)[1])
                                THEN astar_for(
                                         [acc EXCEPT
                                             !.parents = put(acc.parents, succ, node),
                                             !.frontier = q_add(q_remove(acc.frontier, succ),
                                                                succ, <<alt_priority>>),
                                             !.replacements = acc.replacements + 1],
                                         node, expl, h, succs, k + 1)
                                ELSE astar_for(acc, node, expl, h, succs, k + 1)
                  ELSE LET rebound == put(acc.parents, succ, node)
                       IN  IF succ_heuristic = None
                           THEN [acc EXCEPT !.parents = rebound, !.status = "error"]
                           ELSE astar_for(
                                    [acc EXCEPT
                                        !.parents = rebound,
                                        !.frontier_count = acc.frontier_count + 1,
                                        !.frontier = q_add(acc.frontier, succ,
                                                           <<astar_priority(rebound, succ,
                                                                            succ_heuristic[1])>>)],
                                    node, expl, h, succs, k + 1)
             ELSE astar_for(acc, node, expl, h, succs, k + 1)

(***************************************************************************)
(* Inputs                                                                  *)
(***************************************************************************)
\* the boards at most n slides away from the boards of S
RECURSIVE within(_, _)
within(S, n) ==
    IF n = 0 THEN S
    ELSE within(S \cup UNION {successor_set(b) : b \in S}, n - 1)

\* a board six slides away from the goal, on which uniform-cost and A* search
\* find a cheaper path to a state of the frontier
DeepStarts == {EightPuzzleBoard(<<"1", "4", "2", "6", "3", "5", "7", "8", "0">>)}

Starts == within({GOAL_STATE}, MaxScramble) \cup DeepStarts

\* the flavor tags of solve_puzzle's documentation
KnownFlavors ==
    {<<"bfs">>, <<"ucost">>,
     <<"greedy", "h1">>, <<"greedy", "h2">>, <<"greedy", "h3">>,
     <<"astar", "h1">>, <<"astar", "h2">>, <<"astar", "h3">>}

\* other tags: dfs, greedy, astar, greedy-h9, astar-h9, bfs-h1, greedy-h1-x
OtherFlavors ==
    {<<"dfs">>, <<"greedy">>, <<"astar">>, <<"greedy", "h9">>, <<"astar", "h9">>,
     <<"bfs", "h1">>, <<"greedy", "h1", "x">>}

Flavors == KnownFlavors \cup OtherFlavors

Strategies == {"bfs", "ucost", "greedy", "astar"}

(***************************************************************************)
(* Actions                                                                 *)
(***************************************************************************)
Idle ==
    /\ pc = "init"
    /\ flavor = <<>>
    /\ strat = NoneStr
    /\ heur = NoneStr
    /\ start = None
    /\ parents = <<>>
    /\ frontier = FifoQueue
    /\ explored = {}
    /\ frontier_count = 0
    /\ expanded_count = 0
    /\ result = <<>>
    /\ replacements = 0
    /\ last_node = None

Init ==
    /\ Idle
    /\ walk = GOAL_STATE
    /\ walk_from = 0
    /\ walk_len = 0

\* solve_puzzle(start_state, flavor), up to the while loop of the solve method
\* it calls: a tag with more than one '-' fails to unpack, an unknown strat
\* raises ValueError
solve_puzzle(start_state, f, tie) ==
    /\ pc = "init"
    /\ flavor' = f
    /\ start' = start_state
    /\ LET parsed == IF Len(f) > 1 THEN f ELSE <<f[1], NoneStr>>
           acc == add_to_frontier(
                      [parents |-> put(parents, start_state, None),
                       frontier |-> IF parsed[1] = "bfs" THEN FifoQueue ELSE PriorityQueue(tie),
                       frontier_count |-> frontier_count],
                      start_state)
       IN  IF Len(parsed) = 2 /\ parsed[1] \in Strategies
           THEN /\ strat' = parsed[1]
                /\ heur' = parsed[2]
                /\ parents' = acc.parents
                /\ frontier' = acc.frontier
                /\ frontier_count' = acc.frontier_count
                /\ IF start_state = GOAL_STATE
                   THEN /\ pc' = "done"
                        /\ result' = get_results_dict(acc.parents, acc.frontier_count,
                                                      expanded_count, start_state)
                   ELSE /\ pc' = "loop"
                        /\ UNCHANGED result
           ELSE /\ pc' = "error"
                /\ strat' = IF Len(parsed) = 2 THEN parsed[1] ELSE NoneStr
                /\ heur' = IF Len(parsed) = 2 THEN parsed[2] ELSE NoneStr
                /\ UNCHANGED <<parents, frontier, frontier_count, result>>
    /\ UNCHANGED <<explored, expanded_count, replacements, last_node>>
    /\ UNCHANGED walk_vars

SolvePuzzle == \E s \in Starts, f \in Flavors, t \in TieRules : solve_puzzle(s, f, t)

\* the accumulator of a loop body, after pop() took the entry at position k
popped_acc(k) ==
    [parents |-> parents,
     frontier |-> q_without(frontier, k),
     frontier_count |-> frontier_count,
     replacements |-> replacements,
     status |-> "run",
     found |-> None]

\* the assignments of one loop iteration that popped n
iteration(n, acc) ==
    /\ explored' = expand_node(explored, expanded_count, n).explored
    /\ expanded_count' = expand_node(explored, expanded_count, n).expanded_count
    /\ last_node' = n
    /\ parents' = acc.parents
    /\ frontier' = acc.frontier
    /\ frontier_count' = acc.frontier_count
    /\ replacements' = acc.replacements
    /\ CASE acc.status = "return" ->
                /\ pc' = "done"
                /\ result' = get_results_dict(acc.parents, acc.frontier_count,
                                              expanded_count + 1, acc.found)
         [] acc.status = "error" ->
                /\ pc' = "error"
                /\ UNCHANGED result
         [] OTHER ->
                /\ pc' = "loop"
                /\ UNCHANGED result

\* the frontier is empty: the search failed
search_failed ==
    /\ pc' = "done"
    /\ result' = get_results_dict(parents, frontier_count, expanded_count, None)
    /\ UNCHANGED <<parents, frontier, explored, frontier_count, expanded_count,
                   replacements, last_node>>

\* lines 190-191 with the parent of the node in place of the node
goal_popped_parent(acc, n) == [acc EXCEPT !.status = "return", !.found = acc.parents[n]]

\* the node popped is the goal (UCS, Greedy, A*): return after expand_node
goal_popped(acc, n) == [acc EXCEPT !.status = "return", !.found = n]

\* one iteration of BreadthFirstSolver.solve's while loop
BFSStep ==
    /\ pc = "loop"
    /\ strat = "bfs"
    /\ IF q_is_empty(frontier) THEN search_failed
       ELSE LET k == q_pop_index(frontier) IN
                LET n == frontier.items[k].state
                    succs == successors(n)
                IN  iteration(n,
                        bfs_for(popped_acc(k), n,
                                expand_node(explored, expanded_count, n).explored,
                                succs, 1))
    /\ UNCHANGED <<flavor, strat, heur, start>>
    /\ UNCHANGED walk_vars

\* one iteration of UniformCostSolver.solve's while loop
UCostStep ==
    /\ pc = "loop"
    /\ strat = "ucost"
    /\ IF q_is_empty(frontier) THEN search_failed
       ELSE LET k == q_pop_index(frontier) IN
                LET n == frontier.items[k].state
                    succs == successors(n)
                IN  iteration(n,
                        IF n = GOAL_STATE THEN goal_popped(popped_acc(k), n)
                        ELSE ucost_for(popped_acc(k), n,
                                       expand_node(explored, expanded_count, n).explored,
                                       succs, 1))
    /\ UNCHANGED <<flavor, strat, heur, start>>
    /\ UNCHANGED walk_vars

\* one iteration of GreedySolver.solve's while loop
GreedyStep ==
    /\ pc = "loop"
    /\ strat = "greedy"
    /\ IF q_is_empty(frontier) THEN search_failed
       ELSE LET k == q_pop_index(frontier) IN
                LET n == frontier.items[k].state
                    succs == successors(n)
                IN  iteration(n,
                        IF n = GOAL_STATE THEN goal_popped(popped_acc(k), n)
                        ELSE greedy_for(popped_acc(k), n,
                                        expand_node(explored, expanded_count, n).explored,
                                        heur, succs, 1))
    /\ UNCHANGED <<flavor, strat, heur, start>>
    /\ UNCHANGED walk_vars

\* one iteration of AStarSolver.solve's while loop
AStarStep ==
    /\ pc = "loop"
    /\ strat = "astar"
    /\ IF q_is_empty(frontier) THEN search_failed
       ELSE LET k == q_pop_index(frontier) IN
                LET n == frontier.items[k].state
                    succs == successors(n)
                IN  iteration(n,
                        IF n = GOAL_STATE THEN goal_popped(popped_acc(k), n)
                        ELSE astar_for(popped_acc(k), n,
                                       expand_node(explored, expanded_count, n).explored,
                                       heur, succs, 1))
    /\ UNCHANGED <<flavor, strat, heur, start>>
    /\ UNCHANGED walk_vars

Next == SolvePuzzle \/ BFSStep \/ UCostStep \/ GreedyStep \/ AStarStep

Spec == Init /\ [][Next]_vars

(***************************************************************************)
(* get_test_puzzles and the slides that lead from a test puzzle to other   *)
(* boards                                                                  *)
(***************************************************************************)
get_test_puzzles ==
    <<EightPuzzleBoard(<<"1", "4", "2", "3", "7", "5", "6", "0", "8">>),
      EightPuzzleBoard(<<"3", "1", "4", "0", "7", "2", "6", "8", "5">>),
      EightPuzzleBoard(<<"8", "0", "2", "3", "5", "6", "1", "7", "4">>)>>

WalkInit ==
    /\ Idle
    /\ walk_from \in 1..Len(get_test_puzzles)
    /\ walk = get_test_puzzles[walk_from]
    /\ walk_len = 0

\* one legal slide from the board of the walk
WalkStep ==
    /\ walk_len < MaxWalk
    /\ \E k \in 1..Len(successors(walk)) : walk' = successors(walk)[k][2]
    /\ walk_len' = walk_len + 1
    /\ UNCHANGED walk_from
    /\ UNCHANGED solver_vars

WalkSpec == WalkInit /\ [][WalkStep]_vars

(***************************************************************************)
(* The boards: every arrangement of the tiles is reached by legal slides   *)
(* from the goal state or from the goal state with two tiles exchanged     *)
(***************************************************************************)
\* the goal state with tiles 1 and 2 exchanged; no slides lead from it to the
\* goal state
ExchangedGoal == EightPuzzleBoard(<<"0", "2", "1", "3", "4", "5", "6", "7", "8">>)

BoardInit ==
    /\ Idle
    /\ walk \in {GOAL_STATE, ExchangedGoal}
    /\ walk_from = 0
    /\ walk_len = 0

\* one legal slide, to any of the successors of the board
BoardStep ==
    /\ \E k \in 1..Len(successors(walk)) : walk' = successors(walk)[k][2]
    /\ UNCHANGED <<walk_from, walk_len>>
    /\ UNCHANGED solver_vars

BoardSpec == BoardInit /\ [][BoardStep]_vars

\* the boards that legal slides lead to from the goal state, which are the
\* boards the goal state can be reached from
GoalBoardInit ==
    /\ Idle
    /\ walk = GOAL_STATE
    /\ walk_from = 0
    /\ walk_len = 0

GoalBoardSpec == GoalBoardInit /\ [][BoardStep]_vars

(***************************************************************************)
(* What the claims measure against: paths of the puzzle graph, computed    *)
(* from the boards alone                                                   *)
(***************************************************************************)
\* the states of a returned path, without the move names
path_states(path) == [i \in 1..Len(path) |-> path[i][2]]

\* board b is board a after exactly one legal slide: the blank and a tile next
\* to it in the grid changed places, every other tile stayed
one_slide(a, b) ==
    LET i == CHOOSE k \in 1..Len(a) : a[k] = "0"
        j == CHOOSE k \in 1..Len(b) : b[k] = "0"
    IN  /\ abs(((i - 1) % Side) - ((j - 1) % Side))
             + abs(((i - 1) \div Side) - ((j - 1) \div Side)) = 1
        /\ a[j] = b[i]
        /\ \A k \in 1..Len(a) : k \notin {i, j} => a[k] = b[k]

\* seq runs from board a to board b by legal slides
is_slide_path(seq, a, b) ==
    /\ Len(seq) >= 1
    /\ seq[1] = a
    /\ seq[Len(seq)] = b
    /\ \A i \in 1..(Len(seq) - 1) : one_slide(seq[i], seq[i + 1])

\* the number of the tile that moved in the slide from board a to board b
moved_tile(a, b) ==
    LET i == CHOOSE k \in 1..Len(a) : a[k] = "0"
    IN  int(b[i])

RECURSIVE slide_path_cost(_, _)
slide_path_cost(seq, i) ==
    IF i >= Len(seq) THEN 0
    ELSE moved_tile(seq[i], seq[i + 1]) * moved_tile(seq[i], seq[i + 1])
         + slide_path_cost(seq, i + 1)

min_of(S) == CHOOSE m \in S : \A n \in S : m <= n

\* the least cost of reaching each board from the boards of dist, over the
\* paths that cost less than c
RECURSIVE cheaper_than(_, _)
cheaper_than(dist, c) ==
    LET cand == UNION {{<<t, dist[b] + moved_tile(b, t) * moved_tile(b, t)>> :
                           t \in successor_set(b)} : b \in DOMAIN dist}
        better == {p \in cand : /\ p[2] < c
                                /\ p[1] \in DOMAIN dist => p[2] < dist[p[1]]}
    IN  IF better = {} THEN dist
        ELSE cheaper_than(
                 [b \in DOMAIN dist \cup {p[1] : p \in better} |->
                     min_of({p[2] : p \in {q \in better : q[1] = b}}
                            \cup (IF b \in DOMAIN dist THEN {dist[b]} ELSE {}))],
                 c)

\* some path from board a to the goal costs less than c
cheaper_path_exists(a, c) ==
    LET dist == cheaper_than([b \in {a} |-> 0], c)
    IN  GOAL_STATE \in DOMAIN dist /\ dist[GOAL_STATE] < c

\* some path from board a to board b costs less than c
cheaper_route_exists(a, b, c) ==
    LET dist == cheaper_than([x \in {a} |-> 0], c)
    IN  b \in DOMAIN dist /\ dist[b] < c

\* some path from board a to the goal has fewer than n slides
shorter_path_exists(a, n) == n > 0 /\ GOAL_STATE \in within({a}, n - 1)

\* solve returned a path from the start to the goal, with that path's cost
returned_solution ==
    /\ "path" \in DOMAIN result
    /\ is_slide_path(path_states(result.path), start, GOAL_STATE)
    /\ result.path_cost = slide_path_cost(path_states(result.path), 1)

(***************************************************************************)
(* Claims                                                                  *)
(***************************************************************************)
\* C1: for every start state the goal is reachable from, UniformCostSolver.solve
\* returns a path from the start to the goal whose path_cost is the least cost
\* of any path from the start to the goal.
C1_UCostOptimal ==
    (pc = "done" /\ strat = "ucost") =>
        /\ returned_solution
        /\ ~cheaper_path_exists(start, result.path_cost)

\* a uniform-cost search that replaced a frontier priority and returned a path
\* of more slides than the scrambled starts need
C1_Witness ==
    /\ pc = "done"
    /\ strat = "ucost"
    /\ replacements > 0
    /\ "path" \in DOMAIN result
    /\ Len(result.path) > MaxScramble + 1

\* C2: for every start state the goal is reachable from, AStarSolver.solve with
\* h1 or h2 returns a path from the start to the goal whose path_cost is the
\* least cost of any path from the start to the goal.
C2_AStarOptimal ==
    (pc = "done" /\ strat = "astar" /\ heur \in {"h1", "h2"}) =>
        /\ returned_solution
        /\ ~cheaper_path_exists(start, result.path_cost)

\* an A* search with h2 that replaced a frontier priority and returned a path
\* of more slides than the scrambled starts need
C2_Witness ==
    /\ pc = "done"
    /\ strat = "astar"
    /\ heur = "h2"
    /\ replacements > 0
    /\ "path" \in DOMAIN result
    /\ Len(result.path) > MaxScramble + 1

\* C3: for every start state the goal is reachable from, BreadthFirstSolver.solve
\* returns a path from the start to the goal with as many moves as a shortest
\* move sequence from the start to the goal.
C3_BFSShortest ==
    (pc = "done" /\ strat = "bfs") =>
        /\ returned_solution
        /\ ~shorter_path_exists(start, Len(result.path) - 1)

\* a breadth-first search that returned a path of more slides than the
\* scrambled starts need
C3_Witness ==
    /\ pc = "done"
    /\ strat = "bfs"
    /\ "path" \in DOMAIN result
    /\ Len(result.path) > MaxScramble + 1

\* the number of parent edges from the root to state
RECURSIVE parent_edges(_, _)
parent_edges(P, state) ==
    IF P[state] = None THEN 0 ELSE 1 + parent_edges(P, P[state])

\* C4: in every state of every strategy, get_path(S) of every S with a parent
\* entry begins at the start state, ends at S, has one consecutive pair per
\* parent edge from the start to S, and each pair is one legal slide; the path
\* returned on success runs from the start to the goal.
C4_PathsAreSlidePaths ==
    /\ \A S \in DOMAIN parents :
           LET path == get_path(parents, S)
           IN  /\ is_slide_path(path, start, S)
               /\ Len(path) - 1 = parent_edges(parents, S)
    /\ (pc = "done" /\ "path" \in DOMAIN result) =>
           /\ path_states(result.path) = get_path(parents, GOAL_STATE)
           /\ is_slide_path(path_states(result.path), start, GOAL_STATE)
           /\ \A i \in 2..Len(result.path) :
                  /\ result.path[i][2] \in successor_set(result.path[i - 1][2])
                  /\ legal(result.path[i - 1][2], result.path[i][1])
                  /\ slide(result.path[i - 1][2], result.path[i][1]) = result.path[i][2]

\* a search that rebound a parent and holds a path of more than one slide
C4_Witness ==
    /\ pc = "loop"
    /\ replacements > 0
    /\ \E S \in DOMAIN parents : Len(get_path(parents, S)) > 2

\* C6: when the start state is the goal state, every strategy returns at once
\* a path of exactly one entry (the start state, no move) with path_cost 0;
\* nothing is popped or expanded, expanded_count is 0 and frontier_count is 1.
C6_StartIsGoal ==
    (pc # "init" /\ strat \in Strategies /\ start = GOAL_STATE) =>
        /\ pc = "done"
        /\ "path" \in DOMAIN result
        /\ result.path = <<<<"start", start>>>>
        /\ result.path_cost = 0
        /\ result.expanded_count = 0
        /\ result.frontier_count = 1
        /\ expanded_count = 0
        /\ frontier_count = 1
        /\ explored = {}
        /\ last_node = None
        /\ q_states(frontier) = {start}

\* an A* search called on the goal state has returned
C6_Witness ==
    /\ pc = "done"
    /\ flavor = <<"astar", "h3">>
    /\ start = GOAL_STATE
    /\ "path" \in DOMAIN result

\* the flavors the one-slide scenario names: BFS, UCS and A* with h1, h2, h3
OneSlideFlavors ==
    {<<"bfs">>, <<"ucost">>, <<"astar", "h1">>, <<"astar", "h2">>, <<"astar", "h3">>}

\* C7: the boards one legal slide away from the goal are 012345678 with tile 1
\* or tile 3 slid; from each of them BFS, UCS and A* (h1, h2, h3) return a path
\* of exactly one move whose path_cost is the square of the moved tile's number.
C7_OneSlideFromGoal ==
    /\ successor_set(GOAL_STATE) =
           {<<"1", "0", "2", "3", "4", "5", "6", "7", "8">>,
            <<"3", "1", "2", "0", "4", "5", "6", "7", "8">>}
    /\ (pc = "done" /\ flavor \in OneSlideFlavors /\ start \in successor_set(GOAL_STATE)) =>
           /\ "path" \in DOMAIN result
           /\ Len(result.path) = 2
           /\ result.path[1] = <<"start", start>>
           /\ result.path[2][2] = GOAL_STATE
           /\ result.path_cost = moved_tile(start, GOAL_STATE) * moved_tile(start, GOAL_STATE)
           /\ start[2] = "0" => result.path_cost = 1
           /\ start[4] = "0" => result.path_cost = 9

\* an A* search with h3 from the board with tile 3 slid has returned
C7_Witness ==
    /\ pc = "done"
    /\ flavor = <<"astar", "h3">>
    /\ start = <<"3", "1", "2", "0", "4", "5", "6", "7", "8">>
    /\ "path" \in DOMAIN result

\* C8: for a flavor tag that is not one of the eight documented tags a usage
\* error is reported and the search is not attempted: no state is added to the
\* frontier, none is expanded and no result dictionary is returned.
C8_UnknownFlavorIsUsageError ==
    (pc # "init" /\ flavor \notin KnownFlavors) =>
        /\ pc = "error"
        /\ q_is_empty(frontier)
        /\ frontier_count = 0
        /\ explored = {}
        /\ expanded_count = 0
        /\ DOMAIN result = {}

\* frontier_count counts the states ever added to the frontier, expanded_count
\* the explored states, and a returned dictionary reports both
counters_match ==
    /\ frontier_count = Cardinality(q_states(frontier) \cup explored)
    /\ expanded_count = Cardinality(explored)
    /\ frontier_count >= expanded_count
    /\ expanded_count >= 0
    /\ pc = "done" => /\ result.frontier_count = frontier_count
                      /\ result.expanded_count = expanded_count

\* neither counter decreases; frontier_count grows by the number of states
\* that are new to the frontier, whether or not a priority was replaced
counters_step ==
    /\ frontier_count' >= frontier_count
    /\ expanded_count' >= expanded_count
    /\ frontier_count' - frontier_count =
           Cardinality((q_states(frontier') \cup explored')
                       \ (q_states(frontier) \cup explored))

\* C9: in every strategy, between loop iterations and at return, frontier_count
\* is the number of distinct states ever added to the frontier (the size of
\* frontier union explored) and expanded_count the size of the explored set, so
\* frontier_count >= expanded_count >= 0; no counter ever decreases, and a
\* priority replacement in UCS or A* adds nothing to either.
C9_Counters == []counters_match /\ [][counters_step]_vars

\* a search that replaced frontier priorities more than once and is still
\* running
C9_Witness ==
    /\ pc = "loop"
    /\ replacements > 1
    /\ expanded_count > 1
    /\ frontier_count > expanded_count

\* C10: the shortest solutions of the three boards of get_test_puzzles have at
\* least 3, at least 10 and at least 25 moves (the lower ends of the ranges
\* 3 to 5, 10 to 15 and 25 or more).
C10_TestPuzzleLengths ==
    walk = GOAL_STATE =>
        /\ walk_from = 1 => walk_len >= 3
        /\ walk_from = 2 => walk_len >= 10
        /\ walk_from = 3 => walk_len >= 25

\* C11: in every strategy the frontier and the explored set are disjoint in
\* every state; a state that was popped and expanded is never added to the
\* frontier again, and the node an iteration expands was not explored before,
\* so no state is expanded more than once.
frontier_explored_disjoint ==
    /\ q_states(frontier) \cap explored = {}
    /\ Len(frontier.items) = Cardinality(q_states(frontier))
    /\ expanded_count = Cardinality(explored)

expanded_once_step ==
    /\ explored \subseteq explored'
    /\ q_states(frontier') \cap explored = {}
    /\ explored' # explored =>
           /\ last_node' \notin explored
           /\ last_node' \in q_states(frontier)
           /\ explored' = explored \cup {last_node'}
    /\ expanded_count' # expanded_count => explored' # explored

C11_ExpandedOnce == []frontier_explored_disjoint /\ [][expanded_once_step]_vars

\* an A* search that met an explored state among the successors of the node it
\* expanded, and goes on
C11_Witness ==
    /\ pc = "loop"
    /\ strat = "astar"
    /\ Cardinality(explored) > 2
    /\ ~q_is_empty(frontier)
    /\ \E s \in successor_set(last_node) : s \in explored

\* every state of the frontier or the explored set has a parent entry
parents_cover_search ==
    (q_states(frontier) \cup explored) \subseteq DOMAIN parents

\* a parent entry stays, and changes only in uniform-cost and A* search, for a
\* state that is and remains in the frontier, together with the replacement of
\* its stored priority by a strictly smaller one
parent_rebinding_step ==
    /\ DOMAIN parents \subseteq DOMAIN parents'
    /\ \A s \in DOMAIN parents :
           parents'[s] # parents[s] =>
               /\ strat \in {"ucost", "astar"}
               /\ s \notin explored'
               /\ q_contains(frontier, s)
               /\ q_contains(frontier', s)
               /\ q_get(frontier', s)[1] < q_get(frontier, s)[1]
               /\ parents'[s] = last_node'
               /\ replacements' > replacements

\* C12: every state in the frontier or the explored set has a parent entry; in
\* BFS and Greedy an entry is never overwritten; in UCS and A* an entry is
\* overwritten only while its state is in the frontier and only in the step
\* that replaces its stored priority by a strictly smaller one; the entry of
\* an explored state never changes.
C12_ParentEntries == []parents_cover_search /\ [][parent_rebinding_step]_vars

\* a uniform-cost search that rebound the parent of a frontier state to the
\* node it just expanded
C12_Witness ==
    /\ strat = "ucost"
    /\ pc = "loop"
    /\ replacements > 0
    /\ \E s \in q_states(frontier) :
           /\ parents[s] = last_node
           /\ \E t \in explored \ {last_node} : one_slide(t, s)

\* following the parent pointers from state reaches the start state, whose
\* parent is None, without meeting a state of seen or a state met on the way
RECURSIVE climbs_to_start(_, _, _)
climbs_to_start(P, state, seen) ==
    /\ state \in DOMAIN P
    /\ state \notin seen
    /\ IF P[state] = None THEN state = start
       ELSE climbs_to_start(P, P[state], seen \cup {state})

\* C13: in every reachable state of every strategy, also after a parent was
\* rebound in UCS or A*, the parent map is a tree rooted at the start state:
\* the parent pointers from any state with an entry lead to the start state,
\* the only state whose parent is None, and never revisit a state.
C13_ParentTree ==
    /\ \A s \in DOMAIN parents : climbs_to_start(parents, s, {})
    /\ pc \in {"loop", "done"} => (start \in DOMAIN parents /\ parents[start] = None)

\* an A* search that rebound a parent and holds a state three or more parent
\* edges below the start
C13_Witness ==
    /\ strat = "astar"
    /\ replacements > 0
    /\ \E s \in DOMAIN parents :
           /\ parents[s] # None
           /\ parents[parents[s]] # None
           /\ parents[parents[parents[s]]] # None

\* in BFS from a start other than the goal, the goal is never in the frontier,
\* never explored and never the node popped; the search goes on exactly while
\* the goal has no parent entry
bfs_goal_not_queued ==
    (strat = "bfs" /\ pc \in {"loop", "done"} /\ start # GOAL_STATE) =>
        /\ GOAL_STATE \notin q_states(frontier)
        /\ GOAL_STATE \notin explored
        /\ last_node # GOAL_STATE
        /\ frontier_count = Cardinality((q_states(frontier) \cup explored) \ {GOAL_STATE})
        /\ expanded_count = Cardinality(explored \ {GOAL_STATE})
        /\ pc = "loop" => GOAL_STATE \notin DOMAIN parents
        /\ pc = "done" =>
               /\ GOAL_STATE \in DOMAIN parents
               /\ parents[GOAL_STATE] = last_node
               /\ "path" \in DOMAIN result
               /\ result.path[Len(result.path)][2] = GOAL_STATE

\* the BFS step that generates the goal for the first time returns success
bfs_goal_step ==
    (strat = "bfs" /\ pc = "loop" /\ start # GOAL_STATE) =>
        /\ (GOAL_STATE \in successor_set(last_node') /\ last_node' # last_node)
               => pc' = "done"
        /\ pc' = "done" =>
               /\ GOAL_STATE \in successor_set(last_node')
               /\ GOAL_STATE \in DOMAIN parents' \ DOMAIN parents
               /\ "path" \in DOMAIN result'

\* C14: in BFS with start different from goal the goal test is applied to each
\* newly discovered successor before insertion: the search returns success in
\* the very step that first generates the goal, so the goal is never inserted
\* into the frontier, never popped, and never counted in frontier_count or
\* expanded_count.
C14_BFSGoalAtGeneration == []bfs_goal_not_queued /\ [][bfs_goal_step]_vars

\* a breadth-first search that returned the goal after expanding more than
\* three nodes, with states left in the frontier
C14_Witness ==
    /\ strat = "bfs"
    /\ pc = "done"
    /\ start # GOAL_STATE
    /\ expanded_count > 3
    /\ ~q_is_empty(frontier)
    /\ "path" \in DOMAIN result

\* the frontier entry of state s has a priority no entry of the frontier is
\* below
least_priority(q, s) ==
    \A k \in 1..Len(q.items) : q_get(q, s)[1] <= q.items[k].pri[1]

\* a uniform-cost or A* search from a start other than the goal that returned
\* a path popped the goal in its last iteration
goal_returned_when_popped ==
    (strat \in {"ucost", "astar"} /\ start # GOAL_STATE /\ pc = "done"
         /\ "path" \in DOMAIN result) =>
        /\ last_node = GOAL_STATE
        /\ GOAL_STATE \in explored
        /\ result.path[Len(result.path)][2] = GOAL_STATE

\* success is returned only by the iteration that pops the goal, which then has
\* the least priority of the frontier; an iteration that generates the goal or
\* lowers its priority leaves it in the frontier and does not return
goal_popped_step ==
    (strat \in {"ucost", "astar"} /\ start # GOAL_STATE /\ pc = "loop") =>
        /\ (pc' = "done" /\ "path" \in DOMAIN result') =>
               /\ q_contains(frontier, GOAL_STATE)
               /\ least_priority(frontier, GOAL_STATE)
               /\ last_node' = GOAL_STATE
               /\ ~q_contains(frontier', GOAL_STATE)
        /\ (~q_contains(frontier, GOAL_STATE) /\ GOAL_STATE \in DOMAIN parents') =>
               /\ pc' # "done"
               /\ pc' = "loop" => q_contains(frontier', GOAL_STATE)
               /\ last_node' # GOAL_STATE
        /\ (q_contains(frontier, GOAL_STATE) /\ q_contains(frontier', GOAL_STATE)) =>
               /\ pc' = "loop"
               /\ last_node' # GOAL_STATE

\* C15: in UCS and A* with start different from goal, success is returned only
\* in an iteration whose popped node is the goal; generating the goal as a
\* successor only inserts it into the frontier or updates its priority, and the
\* search goes on popping other states until the goal is the entry of least
\* priority.
C15_GoalAtPop == []goal_returned_when_popped /\ [][goal_popped_step]_vars

\* a uniform-cost search that holds the goal in the frontier and has popped
\* another state since the goal was generated
C15_Witness ==
    /\ strat = "ucost"
    /\ pc = "loop"
    /\ q_contains(frontier, GOAL_STATE)
    /\ parents[GOAL_STATE] # last_node
    /\ last_node # GOAL_STATE

\* C16: in every reachable state every frontier entry other than the start
\* state inserted at the beginning has, in UCS, the stored priority
\* get_cost(state) through the current parent map and, in A*,
\* get_cost(state) + heuristic(state); this holds after the first insertion and
\* after every remove + re-add, and a state is in the frontier with at most one
\* priority.
C16_StoredPriorities ==
    /\ Len(frontier.items) = Cardinality(q_states(frontier))
    /\ strat = "ucost" =>
           \A k \in 1..Len(frontier.items) :
               LET e == frontier.items[k]
               IN  e.state # start => e.pri = <<get_cost(parents, e.state)>>
    /\ strat = "astar" =>
           \A k \in 1..Len(frontier.items) :
               LET e == frontier.items[k]
               IN  e.state # start =>
                       /\ _heuristic(e.state, heur) # None
                       /\ e.pri = <<get_cost(parents, e.state)
                                    + _heuristic(e.state, heur)[1]>>

\* an A* search that replaced a priority and holds the re-added state, bound to
\* the node it just expanded, among other entries of the frontier
C16_Witness ==
    /\ strat = "astar"
    /\ pc = "loop"
    /\ replacements > 0
    /\ Len(frontier.items) > 2
    /\ \E s \in q_states(frontier) :
           /\ parents[s] = last_node
           /\ \E t \in explored \ {last_node} : one_slide(t, s)

\* in uniform-cost search no explored state costs more than the node popped
\* last, and no path from the start to that node costs less than its get_cost
ucost_popped_in_order ==
    (strat = "ucost" /\ last_node # None) =>
        /\ \A e \in explored : get_cost(parents, e) <= get_cost(parents, last_node)
        /\ ~cheaper_route_exists(start, last_node, get_cost(parents, last_node))

\* the node a uniform-cost iteration pops costs no less than the node popped
\* before it, and the cost of every explored state stays what it was
ucost_pop_step ==
    strat = "ucost" =>
        /\ last_node # None =>
               get_cost(parents', last_node') >= get_cost(parents, last_node)
        /\ \A e \in explored : get_cost(parents', e) = get_cost(parents, e)

\* C19: in UCS the states popped from the frontier have non-decreasing path
\* cost: each popped state's get_cost is at least that of every state popped
\* before it, and when a state is popped its cost is already the least cost of
\* any path from the start to it, so no cheaper path to it is found later.
C19_UCostPopOrder == []ucost_popped_in_order /\ [][ucost_pop_step]_vars

\* a uniform-cost search that replaced a priority and popped a node that costs
\* more than a node popped earlier
C19_Witness ==
    /\ strat = "ucost"
    /\ replacements > 0
    /\ last_node # None
    /\ Cardinality(explored) > 3
    /\ \E e \in explored :
           /\ e # start
           /\ get_cost(parents, e) < get_cost(parents, last_node)

\* the parent map in which board t has the parent s, and s is the root
edge_parents(s, t) == put(put(<<>>, s, None), t, s)

\* C17: for every board s and every move m of s.successors(),
\* _transition_cost(s, m) is the cost get_cost gives the edge from s to
\* s.successors()[m]: the square of the number of the tile that is, in the
\* successor, in the cell where s has its blank; the two rules agree for each
\* of the moves up, down, left and right.
C17_TransitionCostIsEdgeCost ==
    LET succs == successors(walk)
    IN  \A k \in 1..Len(succs) :
            LET move == succs[k][1]
                succ == succs[k][2]
                cost == _transition_cost(walk, move)
                tile == moved_tile(walk, succ)
            IN  /\ cost = get_cost(edge_parents(walk, succ), succ)
                /\ cost = tile * tile
                /\ tile > 0

\* a board with the blank in the middle, which has all four moves, and tile 8
\* next to the blank
C17_Witness ==
    /\ walk[5] = "0"
    /\ Len(successors(walk)) = 4
    /\ \E k \in 1..4 : _transition_cost(walk, successors(walk)[k][1]) = 64

\* heuristic h never exceeds, on board s, the cost of a slide to a board of
\* next plus its value after the slide
consistent_at(s, next, h) ==
    LET h_s == _heuristic(s, h)[1]
    IN  \A t \in next :
            LET tile == moved_tile(s, t)
            IN  h_s <= tile * tile + _heuristic(t, h)[1]

\* C18: each of h1 (misplaced tiles), h2 (Manhattan distance) and h3 (sum of
\* tile^2 times Manhattan distance) is consistent with the squared-tile
\* transition cost: h(goal) = 0 and h(s) <= t^2 + h(s') for every board s and
\* every legal slide of a tile t from s to s'; so an explored state that A*
\* skips has no cheaper path, with h3 as with h1 and h2.
C18_HeuristicsConsistent ==
    LET next == successor_set(walk)
    IN  \A h \in {"h1", "h2", "h3"} :
            /\ walk = GOAL_STATE => _heuristic(walk, h) = <<0>>
            /\ consistent_at(walk, next, h)

\* a board on which a slide lowers h1 and h2 by one and h3 by exactly the cost
\* of the slide
C18_Witness ==
    \E t \in successor_set(walk) :
        /\ moved_tile(walk, t) > 1
        /\ _heuristic(walk, "h1")[1] = 1 + _heuristic(t, "h1")[1]
        /\ _heuristic(walk, "h2")[1] = 1 + _heuristic(t, "h2")[1]
        /\ _heuristic(walk, "h3")[1] = moved_tile(walk, t) * moved_tile(walk, t)
                                       + _heuristic(t, "h3")[1]

\* the consequence for A* with h1, h2 or h3, in the states of Spec: an explored
\* state next to an explored state has no cheaper path through it, and the cost
\* of an explored state is the least cost of any path from the start
astar_skips_lose_nothing ==
    (strat = "astar" /\ heur \in {"h1", "h2", "h3"} /\ last_node # None) =>
        /\ \A t \in successor_set(last_node) \cap explored :
               get_cost(parents, t)
                   <= get_cost(parents, last_node)
                      + moved_tile(last_node, t) * moved_tile(last_node, t)
        /\ ~cheaper_route_exists(start, last_node, get_cost(parents, last_node))

====
